---- MODULE Spec2Model ----
(***************************************************************************)
(* Model of pkg/service/grpc_service.go: the gRPC front end of flagd.      *)
(*                                                                         *)
(*  - GRPCService.Serve: TLS set-up, listener selection, the serving       *)
(*    goroutine started through an errgroup, the wait on the group's       *)
(*    context and the graceful stop.                                       *)
(*  - The five Resolve* handlers and HandleEvaluationError.                *)
(*                                                                         *)
(* Two specifications share the module: Spec is the lifecycle of one       *)
(* Serve call with the calls it accepts; SpecResolve runs the handlers     *)
(* over bounded evaluator outputs.                                         *)
(***************************************************************************)
EXTENDS Integers, Sequences, FiniteSets, TLC

VARIABLES
    cfg,          \* s.GRPCServiceConfiguration (immutable during Serve)
    pc,           \* position of the goroutine that called Serve
    ret,          \* what Serve returned ("none" while it has not)
    tlsOutcome,   \* loadTLSConfig: "notcalled", "ok" or "err"
    secure,       \* serverOpts holds grpc.Creds(...)
    listenCalls,  \* the net.Listen calls made, in order: <<network, address>>
    listenOutcome,\* net.Listen: "notcalled", "ok" or "err"
    lis,          \* the listener Serve holds, or NoListener
    lisOpen,      \* that listener is open
    ctxDone,      \* the caller's ctx has been cancelled
    task,         \* the goroutine of g.Go: "none", "spawned", "accepting", "returned"
    gErr,         \* what that goroutine returned ("none" while it has not)
    srvStopped,   \* grpcServer.GracefulStop has been called
    calls,        \* ids of the calls in flight
    accepted,     \* number of calls accepted so far
    drainCalls,   \* the calls that were in flight when GracefulStop was called
    rpc           \* the last completed Resolve* handler invocation, or NoRpc

lifeVars == <<cfg, pc, ret, tlsOutcome, secure, listenCalls, listenOutcome, lis,
              lisOpen, ctxDone, task, gErr, srvStopped, calls, accepted, drainCalls>>
vars == <<cfg, pc, ret, tlsOutcome, secure, listenCalls, listenOutcome, lis,
          lisOpen, ctxDone, task, gErr, srvStopped, calls, accepted, drainCalls, rpc>>

(***************************************************************************)
(* Bounds                                                                  *)
(***************************************************************************)
\* total number of calls the accept loop takes during one Serve
MaxCalls == 2

Ports == {0, 8013}
CertPaths == {"", "server.crt"}
KeyPaths == {"", "server.key"}
SocketPaths == {"", "/tmp/flagd.sock"}

Configurations ==
    [Port : Ports, ServerKeyPath : KeyPaths, ServerCertPath : CertPaths,
     ServerSocketPath : SocketPaths]

NoListener == <<"none", "">>
NoRpc == [op |-> "none"]

(***************************************************************************)
(* Serve, lines 36-62: start-up                                            *)
(***************************************************************************)
\* a variant of the TLS condition that takes either path alone as enough
UseTLSEither(c) == c.ServerCertPath # "" \/ c.ServerKeyPath # ""

\* line 44: TLS is configured only when both paths are non-empty
UseTLS(c) == c.ServerCertPath # "" /\ c.ServerKeyPath # ""

Digit(d) == CASE d = 0 -> "0" [] d = 1 -> "1" [] d = 2 -> "2" [] d = 3 -> "3"
              [] d = 4 -> "4" [] d = 5 -> "5" [] d = 6 -> "6" [] d = 7 -> "7"
              [] d = 8 -> "8" [] d = 9 -> "9"

RECURSIVE Decimal(_)
\* the decimal digits of a natural number
Decimal(n) == IF n < 10 THEN Digit(n) ELSE Decimal(n \div 10) \o Digit(n % 10)

\* line 58: fmt.Sprintf(":%d", port) for an int32 port
TCPAddress(port) ==
    IF port < 0 THEN ":-" \o Decimal(0 - port) ELSE ":" \o Decimal(port)

\* a variant of the transport selection that prefers a configured port
ListenTargetPortFirst(c) ==
    IF c.Port # 0 THEN <<"tcp", TCPAddress(c.Port)>>
    ELSE IF c.ServerSocketPath # "" THEN <<"unix", c.ServerSocketPath>>
    ELSE <<"tcp", TCPAddress(c.Port)>>

\* lines 55-59: the network and address handed to net.Listen
ListenTarget(c) ==
    IF c.ServerSocketPath # "" THEN <<"unix", c.ServerSocketPath>>
    ELSE <<"tcp", TCPAddress(c.Port)>>

\* a variant of the start-up that does not look at net.Listen's error
StartOutcomeIgnoreListenErr(c, tlsOk, lisOk) ==
    IF UseTLS(c) /\ ~tlsOk
    THEN [ret |-> "TLSError", tls |-> "err", secure |-> FALSE,
          listenCalls |-> <<>>, listen |-> "notcalled", lis |-> NoListener,
          started |-> FALSE]
    ELSE [ret |-> "none",
          tls |-> IF UseTLS(c) THEN "ok" ELSE "notcalled",
          secure |-> UseTLS(c),
          listenCalls |-> <<ListenTarget(c)>>,
          listen |-> IF lisOk THEN "ok" ELSE "err",
          lis |-> IF lisOk THEN ListenTarget(c) ELSE NoListener,
          started |-> TRUE]

\* lines 37-66 as a function of the configuration and of what loadTLSConfig
\* and net.Listen answer: what Serve returns at once (or "none"), what was
\* called, and whether g.Go was reached
StartOutcome(c, tlsOk, lisOk) ==
    IF UseTLS(c) /\ ~tlsOk
    THEN \* lines 45-48
         [ret |-> "TLSError", tls |-> "err", secure |-> FALSE,
          listenCalls |-> <<>>, listen |-> "notcalled", lis |-> NoListener,
          started |-> FALSE]
    ELSE IF ~lisOk
    THEN \* lines 55-62
         [ret |-> "ListenError",
          tls |-> IF UseTLS(c) THEN "ok" ELSE "notcalled",
          secure |-> UseTLS(c),
          listenCalls |-> <<ListenTarget(c)>>, listen |-> "err",
          lis |-> NoListener, started |-> FALSE]
    ELSE \* lines 64-66
         [ret |-> "none",
          tls |-> IF UseTLS(c) THEN "ok" ELSE "notcalled",
          secure |-> UseTLS(c),
          listenCalls |-> <<ListenTarget(c)>>, listen |-> "ok",
          lis |-> ListenTarget(c), started |-> TRUE]

\* Serve from its entry to the receive on gCtx.Done() (line 67), or to an
\* early return
ServeStart ==
    /\ pc = "idle"
    /\ \E tlsOk \in BOOLEAN, lisOk \in BOOLEAN :
         LET o == StartOutcome(cfg, tlsOk, lisOk) IN
           /\ tlsOutcome' = o.tls
           /\ secure' = o.secure
           /\ listenCalls' = o.listenCalls
           /\ listenOutcome' = o.listen
           /\ lis' = o.lis
           /\ lisOpen' = (o.lis # NoListener)
           /\ ret' = o.ret
           /\ pc' = IF o.started THEN "waiting" ELSE "done"
           /\ task' = IF o.started THEN "spawned" ELSE "none"
    /\ UNCHANGED <<cfg, ctxDone, gErr, srvStopped, calls, accepted, drainCalls, rpc>>

(***************************************************************************)
(* The caller's context and the errgroup's context (line 39)               *)
(***************************************************************************)
\* the caller cancels ctx; it may do so before, during or after start-up
Cancel ==
    /\ ~ctxDone
    /\ ctxDone' = TRUE
    /\ UNCHANGED <<cfg, pc, ret, tlsOutcome, secure, listenCalls, listenOutcome,
                   lis, lisOpen, task, gErr, srvStopped, calls, accepted,
                   drainCalls, rpc>>

\* gCtx of errgroup.WithContext: done when ctx is done or when the function
\* given to g.Go has returned a non-nil error
gCtxDone == ctxDone \/ gErr \in {"AcceptError", "ErrServerStopped"}

(***************************************************************************)
(* The goroutine of g.Go (lines 64-66): grpcServer.Serve(lis)              *)
(***************************************************************************)
\* the goroutine gets to run and calls grpcServer.Serve(lis): the server
\* registers the listener, or, when GracefulStop has already been called,
\* closes it and returns ErrServerStopped
TaskServe ==
    /\ task = "spawned"
    /\ IF srvStopped
       THEN /\ task' = "returned"
            /\ gErr' = "ErrServerStopped"
            /\ lisOpen' = FALSE
       ELSE /\ task' = "accepting"
            /\ UNCHANGED <<gErr, lisOpen>>
    /\ UNCHANGED <<cfg, pc, ret, tlsOutcome, secure, listenCalls, listenOutcome,
                   lis, ctxDone, srvStopped, calls, accepted, drainCalls, rpc>>

\* the accept loop takes a connection and the call on it starts
AcceptCall ==
    /\ task = "accepting"
    /\ lisOpen
    /\ ~srvStopped
    /\ accepted < MaxCalls
    /\ accepted' = accepted + 1
    /\ calls' = calls \cup {accepted + 1}
    /\ UNCHANGED <<cfg, pc, ret, tlsOutcome, secure, listenCalls, listenOutcome,
                   lis, lisOpen, ctxDone, task, gErr, srvStopped, drainCalls, rpc>>

\* a call in flight finishes (its handler returns)
FinishCall ==
    /\ \E c \in calls : calls' = calls \ {c}
    /\ UNCHANGED <<cfg, pc, ret, tlsOutcome, secure, listenCalls, listenOutcome,
                   lis, lisOpen, ctxDone, task, gErr, srvStopped, accepted,
                   drainCalls, rpc>>

\* the listener fails while the server is serving: grpcServer.Serve closes
\* it and returns the error, which the errgroup records
AcceptFail ==
    /\ task = "accepting"
    /\ ~srvStopped
    /\ task' = "returned"
    /\ gErr' = "AcceptError"
    /\ lisOpen' = FALSE
    /\ UNCHANGED <<cfg, pc, ret, tlsOutcome, secure, listenCalls, listenOutcome,
                   lis, ctxDone, srvStopped, calls, accepted, drainCalls, rpc>>

\* the accept loop sees the listener closed by GracefulStop and returns nil
AcceptExit ==
    /\ task = "accepting"
    /\ srvStopped
    /\ task' = "returned"
    /\ gErr' = "nil"
    /\ UNCHANGED <<cfg, pc, ret, tlsOutcome, secure, listenCalls, listenOutcome,
                   lis, lisOpen, ctxDone, srvStopped, calls, accepted, drainCalls,
                   rpc>>

(***************************************************************************)
(* Serve, lines 67-69: wait, graceful stop, return                         *)
(***************************************************************************)
\* line 67 unblocks and line 68 calls GracefulStop, which closes the
\* listeners the server has registered and stops it taking connections
GracefulStopBegin ==
    /\ pc = "waiting"
    /\ gCtxDone
    /\ pc' = "stopping"
    /\ srvStopped' = TRUE
    /\ lisOpen' = IF task = "accepting" THEN FALSE ELSE lisOpen
    /\ drainCalls' = calls
    /\ UNCHANGED <<cfg, ret, tlsOutcome, secure, listenCalls, listenOutcome, lis,
                   ctxDone, task, gErr, calls, accepted, rpc>>

\* a variant of the stop that returns without waiting for the calls (Stop)
StopWaitOverNoDrain == task # "accepting"

\* what GracefulStop blocks on: the accept loop has left and no call is in
\* flight; there is no timeout
StopWaitOver == task # "accepting" /\ calls = {}

\* GracefulStop returns and Serve returns nil (line 69)
GracefulStopEnd ==
    /\ pc = "stopping"
    /\ StopWaitOver
    /\ pc' = "done"
    /\ ret' = "nil"
    /\ UNCHANGED <<cfg, tlsOutcome, secure, listenCalls, listenOutcome, lis,
                   lisOpen, ctxDone, task, gErr, srvStopped, calls, accepted,
                   drainCalls, rpc>>

(***************************************************************************)
(* The lifecycle specification                                             *)
(***************************************************************************)
InitLife ==
    /\ pc = "idle"
    /\ ret = "none"
    /\ tlsOutcome = "notcalled"
    /\ secure = FALSE
    /\ listenCalls = <<>>
    /\ listenOutcome = "notcalled"
    /\ lis = NoListener
    /\ lisOpen = FALSE
    /\ ctxDone = FALSE
    /\ task = "none"
    /\ gErr = "none"
    /\ srvStopped = FALSE
    /\ calls = {}
    /\ accepted = 0
    /\ drainCalls = {}

Init ==
    /\ cfg \in Configurations
    /\ InitLife
    /\ rpc = NoRpc

Next ==
    \/ ServeStart
    \/ Cancel
    \/ TaskServe
    \/ AcceptCall
    \/ FinishCall
    \/ AcceptFail
    \/ AcceptExit
    \/ GracefulStopBegin
    \/ GracefulStopEnd

Spec == Init /\ [][Next]_vars

\* the scheduler runs every goroutine that can run and every call finishes;
\* the caller need not cancel, the listener need not fail, calls need not come
FairSpec ==
    /\ Spec
    /\ WF_vars(ServeStart)
    /\ WF_vars(TaskServe)
    /\ WF_vars(FinishCall)
    /\ WF_vars(AcceptExit)
    /\ WF_vars(GracefulStopBegin)
    /\ WF_vars(GracefulStopEnd)

(***************************************************************************)
(* HandleEvaluationError, lines 152-171                                    *)
(***************************************************************************)
\* model.FlagNotFoundErrorCode and model.TypeMismatchErrorCode (lines 156, 158)
FlagNotFoundErrorCode == "FLAG_NOT_FOUND"
TypeMismatchErrorCode == "TYPE_MISMATCH"

\* stands for a Go string whose bytes are not valid UTF-8
BadUTF8 == "\\xff\\xfe"
ValidUTF8(str) == str # BadUTF8

\* the messages err.Error() gives
ErrMessages == {FlagNotFoundErrorCode, TypeMismatchErrorCode, "GENERAL", "", BadUTF8}

NilErr == [isNil |-> TRUE, msg |-> ""]
ErrorOf(m) == [isNil |-> FALSE, msg |-> m]
NilStatus == [isNil |-> TRUE, code |-> "OK", message |-> "", details |-> <<>>]

\* lines 153-160: the switch on the message
StatusCodeOf(message) ==
    CASE message = FlagNotFoundErrorCode -> "NotFound"
      [] message = TypeMismatchErrorCode -> "InvalidArgument"
      [] OTHER -> "Internal"

\* lines 162-165, st.WithDetails(detail): the detail is marshalled into the
\* status; marshalling fails for a status of code OK and for a detail with a
\* string field that is not valid UTF-8
WithDetails(st, detail) ==
    IF st.code = "OK" \/ ~ValidUTF8(detail.errorCode) \/ ~ValidUTF8(detail.reason)
    THEN [ok |-> FALSE, status |-> st]
    ELSE [ok |-> TRUE, status |-> [st EXCEPT !.details = Append(@, detail)]]

\* a variant that hands the evaluator's reason on in the detail
HandleEvaluationErrorPassReason(err, reason) ==
    LET message == err.msg
        st == [isNil |-> FALSE, code |-> StatusCodeOf(message),
               message |-> message, details |-> <<>>]
        wd == WithDetails(st, [errorCode |-> message, reason |-> reason])
    IN  [status |-> IF wd.ok THEN wd.status ELSE st, logged |-> ~wd.ok]

\* lines 152-171: the status returned, and whether the failure to attach the
\* detail was logged (lines 166-169)
HandleEvaluationError(err, reason) ==
    LET message == err.msg
        st == [isNil |-> FALSE, code |-> StatusCodeOf(message),
               message |-> message, details |-> <<>>]
        wd == WithDetails(st, [errorCode |-> message, reason |-> "ERROR"])
    IN  [status |-> IF wd.ok THEN wd.status ELSE st, logged |-> ~wd.ok]

(***************************************************************************)
(* Requests, evaluator outputs, responses                                  *)
(***************************************************************************)
EmptyMap == [k \in {} |-> 0]

FlagKeys == {"", "flagA"}
Contexts == {EmptyMap, [k \in {"user"} |-> "u1"]}
Requests == [flagKey : FlagKeys, context : Contexts]

Variants == {"", "variantA"}
\* "CUSTOM" is outside the evaluator's known vocabulary
Reasons == {"STATIC", "ERROR", "CUSTOM"}
Errors == {NilErr} \cup {ErrorOf(m) : m \in ErrMessages}

\* a Go value held in the mapping ResolveObjectValue returns
GoInt(n) == [kind |-> "int", n |-> n, s |-> ""]
GoString(str) == [kind |-> "string", n |-> 0, s |-> str]
GoChan == [kind |-> "chan", n |-> 0, s |-> ""]

ObjectValues ==
    { EmptyMap,
      [k \in {"a", "b"} |-> IF k = "a" THEN GoInt(1) ELSE GoString("x")],
      [k \in {"c"} |-> GoChan],
      [k \in {"d"} |-> GoString(BadUTF8)] }

\* a float64 is kept as a number; the handlers do no arithmetic on it
ValuesOf(op) ==
    CASE op = "boolean" -> {FALSE, TRUE}
      [] op = "string" -> {"", "on"}
      [] op = "int" -> {0, 7}
      [] op = "float" -> {0, 3}
      [] op = "object" -> ObjectValues

\* what the evaluator can answer to one Resolve<T>Value call: a value and a
\* variant may come together with an error
EvalOutputs(op) ==
    [value : ValuesOf(op), variant : Variants, reason : Reasons, err : Errors]

NilStruct == [isNil |-> TRUE, fields |-> EmptyMap]

\* gen.Resolve<T>Response{} (lines 77, 92, 107, 122, 137)
ZeroResponse(op) ==
    [value |-> CASE op = "boolean" -> FALSE
                 [] op = "string" -> ""
                 [] op = "int" -> 0
                 [] op = "float" -> 0
                 [] op = "object" -> NilStruct,
     variant |-> "", reason |-> ""]

\* structpb.NewValue on the Go values modelled
NewValue(v) ==
    CASE v.kind = "int" -> [ok |-> TRUE, val |-> [kind |-> "number_value", n |-> v.n, s |-> ""]]
      [] v.kind = "string" /\ ValidUTF8(v.s) ->
           [ok |-> TRUE, val |-> [kind |-> "string_value", n |-> 0, s |-> v.s]]
      [] v.kind = "string" /\ ~ValidUTF8(v.s) ->
           [ok |-> FALSE, val |-> [kind |-> "none", n |-> 0, s |-> ""]]
      [] OTHER -> [ok |-> FALSE, val |-> [kind |-> "none", n |-> 0, s |-> ""]]

\* line 142, structpb.NewStruct(result): every key and value is converted,
\* and one that cannot be makes the whole conversion fail
NewStruct(m) ==
    IF \E k \in DOMAIN m : ~ValidUTF8(k) \/ ~NewValue(m[k]).ok
    THEN [val |-> NilStruct, err |-> ErrorOf("proto: invalid type")]
    ELSE [val |-> [isNil |-> FALSE, fields |-> [k \in DOMAIN m |-> NewValue(m[k]).val]],
          err |-> NilErr]

(***************************************************************************)
(* The handlers, lines 73-150.  Each is a function of the request and of   *)
(* what the evaluator answers to the one call the handler makes; it gives  *)
(* the flag key and context handed to the evaluator, the response and the  *)
(* status.                                                                 *)
(***************************************************************************)
\* a variant that answers a request with an empty flag key itself
ResolveBooleanRejectEmptyKey(req, out) ==
    IF req.flagKey = ""
    THEN [evalInvoked |-> FALSE, evalKey |-> "", evalCtx |-> EmptyMap,
          res |-> ZeroResponse("boolean"),
          status |-> HandleEvaluationError(ErrorOf(FlagNotFoundErrorCode), "ERROR").status,
          logged |-> FALSE]
    ELSE IF ~out.err.isNil
    THEN [evalInvoked |-> TRUE, evalKey |-> req.flagKey, evalCtx |-> req.context,
          res |-> ZeroResponse("boolean"),
          status |-> HandleEvaluationError(out.err, out.reason).status,
          logged |-> HandleEvaluationError(out.err, out.reason).logged]
    ELSE [evalInvoked |-> TRUE, evalKey |-> req.flagKey, evalCtx |-> req.context,
          res |-> [value |-> out.value, variant |-> out.variant, reason |-> out.reason],
          status |-> NilStatus, logged |-> FALSE]

\* lines 73-86
ResolveBoolean(req, out) ==
    IF ~out.err.isNil
    THEN [evalInvoked |-> TRUE, evalKey |-> req.flagKey, evalCtx |-> req.context,
          res |-> ZeroResponse("boolean"),
          status |-> HandleEvaluationError(out.err, out.reason).status,
          logged |-> HandleEvaluationError(out.err, out.reason).logged]
    ELSE [evalInvoked |-> TRUE, evalKey |-> req.flagKey, evalCtx |-> req.context,
          res |-> [value |-> out.value, variant |-> out.variant, reason |-> out.reason],
          status |-> NilStatus, logged |-> FALSE]

\* lines 88-101
ResolveString(req, out) ==
    IF ~out.err.isNil
    THEN [evalInvoked |-> TRUE, evalKey |-> req.flagKey, evalCtx |-> req.context,
          res |-> ZeroResponse("string"),
          status |-> HandleEvaluationError(out.err, out.reason).status,
          logged |-> HandleEvaluationError(out.err, out.reason).logged]
    ELSE [evalInvoked |-> TRUE, evalKey |-> req.flagKey, evalCtx |-> req.context,
          res |-> [value |-> out.value, variant |-> out.variant, reason |-> out.reason],
          status |-> NilStatus, logged |-> FALSE]

\* a variant that leaves the response's variant unset
ResolveIntNoVariant(req, out) ==
    IF ~out.err.isNil
    THEN [evalInvoked |-> TRUE, evalKey |-> req.flagKey, evalCtx |-> req.context,
          res |-> ZeroResponse("int"),
          status |-> HandleEvaluationError(out.err, out.reason).status,
          logged |-> HandleEvaluationError(out.err, out.reason).logged]
    ELSE [evalInvoked |-> TRUE, evalKey |-> req.flagKey, evalCtx |-> req.context,
          res |-> [value |-> out.value, variant |-> "", reason |-> out.reason],
          status |-> NilStatus, logged |-> FALSE]

\* lines 103-116
ResolveInt(req, out) ==
    IF ~out.err.isNil
    THEN [evalInvoked |-> TRUE, evalKey |-> req.flagKey, evalCtx |-> req.context,
          res |-> ZeroResponse("int"),
          status |-> HandleEvaluationError(out.err, out.reason).status,
          logged |-> HandleEvaluationError(out.err, out.reason).logged]
    ELSE [evalInvoked |-> TRUE, evalKey |-> req.flagKey, evalCtx |-> req.context,
          res |-> [value |-> out.value, variant |-> out.variant, reason |-> out.reason],
          status |-> NilStatus, logged |-> FALSE]

\* lines 118-131
ResolveFloat(req, out) ==
    IF ~out.err.isNil
    THEN [evalInvoked |-> TRUE, evalKey |-> req.flagKey, evalCtx |-> req.context,
          res |-> ZeroResponse("float"),
          status |-> HandleEvaluationError(out.err, out.reason).status,
          logged |-> HandleEvaluationError(out.err, out.reason).logged]
    ELSE [evalInvoked |-> TRUE, evalKey |-> req.flagKey, evalCtx |-> req.context,
          res |-> [value |-> out.value, variant |-> out.variant, reason |-> out.reason],
          status |-> NilStatus, logged |-> FALSE]

\* a variant that fills in reason and variant before converting the value
ResolveObjectFillFirst(req, out) ==
    IF ~out.err.isNil
    THEN [evalInvoked |-> TRUE, evalKey |-> req.flagKey, evalCtx |-> req.context,
          res |-> ZeroResponse("object"),
          status |-> HandleEvaluationError(out.err, out.reason).status,
          logged |-> HandleEvaluationError(out.err, out.reason).logged]
    ELSE IF ~NewStruct(out.value).err.isNil
    THEN [evalInvoked |-> TRUE, evalKey |-> req.flagKey, evalCtx |-> req.context,
          res |-> [value |-> NilStruct, variant |-> out.variant, reason |-> out.reason],
          status |-> HandleEvaluationError(NewStruct(out.value).err, out.reason).status,
          logged |-> HandleEvaluationError(NewStruct(out.value).err, out.reason).logged]
    ELSE [evalInvoked |-> TRUE, evalKey |-> req.flagKey, evalCtx |-> req.context,
          res |-> [value |-> NewStruct(out.value).val, variant |-> out.variant,
                   reason |-> out.reason],
          status |-> NilStatus, logged |-> FALSE]

\* lines 133-150
ResolveObject(req, out) ==
    IF ~out.err.isNil
    THEN \* lines 139-141
         [evalInvoked |-> TRUE, evalKey |-> req.flagKey, evalCtx |-> req.context,
          res |-> ZeroResponse("object"),
          status |-> HandleEvaluationError(out.err, out.reason).status,
          logged |-> HandleEvaluationError(out.err, out.reason).logged]
    ELSE IF ~NewStruct(out.value).err.isNil
    THEN \* lines 142-145
         [evalInvoked |-> TRUE, evalKey |-> req.flagKey, evalCtx |-> req.context,
          res |-> ZeroResponse("object"),
          status |-> HandleEvaluationError(NewStruct(out.value).err, out.reason).status,
          logged |-> HandleEvaluationError(NewStruct(out.value).err, out.reason).logged]
    ELSE \* lines 146-149
         [evalInvoked |-> TRUE, evalKey |-> req.flagKey, evalCtx |-> req.context,
          res |-> [value |-> NewStruct(out.value).val, variant |-> out.variant,
                   reason |-> out.reason],
          status |-> NilStatus, logged |-> FALSE]

\* the record kept of a handler invocation
Completed(op, req, out, h) ==
    [op |-> op, req |-> req, out |-> out, evalInvoked |-> h.evalInvoked,
     evalKey |-> h.evalKey, evalCtx |-> h.evalCtx, res |-> h.res,
     status |-> h.status, logged |-> h.logged]

CallResolveBoolean ==
    /\ \E req \in Requests, out \in EvalOutputs("boolean") :
         rpc' = Completed("boolean", req, out, ResolveBoolean(req, out))
    /\ UNCHANGED lifeVars

CallResolveString ==
    /\ \E req \in Requests, out \in EvalOutputs("string") :
         rpc' = Completed("string", req, out, ResolveString(req, out))
    /\ UNCHANGED lifeVars

CallResolveInt ==
    /\ \E req \in Requests, out \in EvalOutputs("int") :
         rpc' = Completed("int", req, out, ResolveInt(req, out))
    /\ UNCHANGED lifeVars

CallResolveFloat ==
    /\ \E req \in Requests, out \in EvalOutputs("float") :
         rpc' = Completed("float", req, out, ResolveFloat(req, out))
    /\ UNCHANGED lifeVars

CallResolveObject ==
    /\ \E req \in Requests, out \in EvalOutputs("object") :
         rpc' = Completed("object", req, out, ResolveObject(req, out))
    /\ UNCHANGED lifeVars

\* the handlers run on a service whose Eval field is set (line 40)
InitResolve ==
    /\ cfg = [Port |-> 8013, ServerKeyPath |-> "", ServerCertPath |-> "",
              ServerSocketPath |-> ""]
    /\ InitLife
    /\ rpc = NoRpc

NextResolve ==
    \/ CallResolveBoolean
    \/ CallResolveString
    \/ CallResolveInt
    \/ CallResolveFloat
    \/ CallResolveObject

SpecResolve == InitResolve /\ [][NextResolve]_vars

(***************************************************************************)
(* Properties of the lifecycle                                             *)
(***************************************************************************)
ServeReturned == pc = "done"
Started == task # "none"

\* C1: when the accept loop fails while the server is serving and the
\* caller has not cancelled, Serve returns a non-nil error.  (Serve does
\* return, by AcceptFailureTerminates, but what it returns is nil.)
AcceptFailureReturnsError ==
    (ServeReturned /\ gErr = "AcceptError" /\ ~ctxDone) => ret # "nil"

\* after a failure of the accept loop Serve does return, once the calls in
\* flight have finished (checked under FairSpec)
AcceptFailureTerminates == (gErr = "AcceptError") ~> ServeReturned

\* C2: a start-up failure (TLS material, or binding the listener) is what
\* Serve returns; no serving task is started, no call is ever accepted, no
\* listener is held, and after a TLS failure net.Listen is never called.
StartupFailureReturned ==
    /\ tlsOutcome = "err" =>
         ret = "TLSError" /\ listenCalls = <<>> /\ listenOutcome = "notcalled"
    /\ listenOutcome = "err" => ret = "ListenError"
    /\ (tlsOutcome = "err" \/ listenOutcome = "err") =>
         /\ ServeReturned
         /\ ~Started
         /\ accepted = 0 /\ calls = {}
         /\ lis = NoListener /\ ~lisOpen
         /\ ~srvStopped

StartupFailureWitness ==
    ServeReturned /\ ret = "ListenError" /\ tlsOutcome = "ok" /\ ctxDone

\* C3: once the serving task has been started and the caller has cancelled,
\* Serve, when it has returned, has returned nil and the listener is closed.
CancelledServeReturnsClosed ==
    (ServeReturned /\ Started /\ ctxDone) => (ret = "nil" /\ ~lisOpen)

\* the part of C3 that the code keeps: Serve returns, and returns nil
CancelledServeReturnsNil ==
    /\ (Started /\ ctxDone) ~> ServeReturned
    /\ [](ServeReturned /\ Started => ret = "nil")

\* C4: once GracefulStop has been called no call is accepted, and Serve
\* does not return while a call is in flight, in particular one that was in
\* flight when GracefulStop was called; nothing but the end of the calls
\* lets the stop finish.
ShutdownOrdering ==
    /\ [][srvStopped => (calls' \subseteq calls /\ accepted' = accepted)]_vars
    /\ [](ServeReturned /\ Started => (calls = {} /\ drainCalls \cap calls = {}))
    /\ [][(pc = "stopping" /\ calls # {}) => pc' = "stopping"]_vars

ShutdownOrderingWitness ==
    pc = "stopping" /\ drainCalls # {} /\ drainCalls \cap calls # {} /\ task = "returned"

ExactlyOneTLSPath(c) == (c.ServerCertPath = "") # (c.ServerKeyPath = "")

\* C7: no listener is created for a configuration with exactly one of the
\* certificate and key paths set.
HalfTLSConfigRejected == ExactlyOneTLSPath(cfg) => listenCalls = <<>>

\* C7, as the code has it: with exactly one of the two paths set Serve loads
\* no TLS material and goes on to create its listener without credentials;
\* TLS material is loaded exactly when both paths are set.
HalfTLSConfigIsPlaintext ==
    /\ (ExactlyOneTLSPath(cfg) /\ pc # "idle") =>
         /\ tlsOutcome = "notcalled"
         /\ ~secure
         /\ Len(listenCalls) = 1
    /\ (tlsOutcome # "notcalled") =>
         (cfg.ServerCertPath # "" /\ cfg.ServerKeyPath # "")

HalfTLSConfigWitness ==
    ExactlyOneTLSPath(cfg) /\ pc = "waiting" /\ lisOpen /\ ~secure

\* C9: with a socket path set, the one listener Serve binds is a unix
\* listener at that path and no TCP listener is created, whatever the port;
\* a TCP listener (on the port) is created only with the socket path empty.
TransportSelection ==
    /\ Len(listenCalls) <= 1
    /\ Started => Len(listenCalls) = 1
    /\ cfg.ServerSocketPath # "" =>
         /\ \A i \in DOMAIN listenCalls :
               listenCalls[i] = <<"unix", cfg.ServerSocketPath>>
         /\ lis \in {NoListener, <<"unix", cfg.ServerSocketPath>>}
    /\ \A i \in DOMAIN listenCalls :
         listenCalls[i][1] = "tcp" =>
           /\ cfg.ServerSocketPath = ""
           /\ listenCalls[i][2] \in {":0", ":8013"}
           /\ (listenCalls[i][2] = ":8013") = (cfg.Port = 8013)
    /\ lis[1] = "tcp" => cfg.ServerSocketPath = ""

TransportSelectionWitness ==
    /\ cfg.ServerSocketPath # "" /\ cfg.Port # 0
    /\ pc = "waiting" /\ lisOpen /\ lis = <<"unix", cfg.ServerSocketPath>>

(***************************************************************************)
(* Properties of the handlers                                              *)
(***************************************************************************)
Handled == rpc.op # "none"
Primitive == rpc.op \in {"boolean", "string", "int", "float"}
EvaluatorFailed == Handled /\ ~rpc.out.err.isNil

ErrorDetail(m) == [errorCode |-> m, reason |-> "ERROR"]

\* C5: for every evaluator error and reason, in all five operations, the
\* status code follows from the message alone (NotFound, InvalidArgument,
\* Internal) and the status carries the detail {errorCode: message,
\* reason: "ERROR"}.
ErrorAlwaysClassifiedWithDetail ==
    EvaluatorFailed =>
      /\ ~rpc.status.isNil
      /\ rpc.status.code =
           (IF rpc.out.err.msg = "FLAG_NOT_FOUND" THEN "NotFound"
            ELSE IF rpc.out.err.msg = "TYPE_MISMATCH" THEN "InvalidArgument"
            ELSE "Internal")
      /\ rpc.status.details = <<ErrorDetail(rpc.out.err.msg)>>

\* C5, as the code has it: the code and the message are as claimed for every
\* error; the detail is as claimed whenever it can be attached, and a
\* message that cannot be marshalled (not valid UTF-8) gives the bare status
\* without details, the failure being logged.  The evaluator's reason never
\* shows.
ErrorClassified ==
    EvaluatorFailed =>
      /\ ~rpc.status.isNil
      /\ rpc.status.code =
           (IF rpc.out.err.msg = "FLAG_NOT_FOUND" THEN "NotFound"
            ELSE IF rpc.out.err.msg = "TYPE_MISMATCH" THEN "InvalidArgument"
            ELSE "Internal")
      /\ rpc.status.message = rpc.out.err.msg
      /\ IF rpc.out.err.msg = BadUTF8
         THEN rpc.status.details = <<>> /\ rpc.logged
         ELSE rpc.status.details = <<ErrorDetail(rpc.out.err.msg)>> /\ ~rpc.logged

ErrorClassifiedWitness ==
    /\ EvaluatorFailed
    /\ rpc.op = "object"
    /\ rpc.out.err.msg = FlagNotFoundErrorCode
    /\ rpc.out.reason = "CUSTOM"
    /\ rpc.status.code = "NotFound"
    /\ rpc.status.details = <<ErrorDetail(FlagNotFoundErrorCode)>>

\* C6: a primitive operation whose evaluator call gave no error returns no
\* error and a response holding exactly the evaluator's value, variant and
\* reason.
PrimitivePassThrough ==
    (Primitive /\ rpc.out.err.isNil) =>
      /\ rpc.status.isNil
      /\ rpc.res.value = rpc.out.value
      /\ rpc.res.variant = rpc.out.variant
      /\ rpc.res.reason = rpc.out.reason

PrimitivePassThroughWitness ==
    /\ rpc.op = "int" /\ rpc.out.err.isNil
    /\ rpc.out.reason = "CUSTOM" /\ rpc.out.variant = "variantA" /\ rpc.out.value = 7
    /\ rpc.res = [value |-> 7, variant |-> "variantA", reason |-> "CUSTOM"]

\* C8: the evaluator is only ever invoked with a non-empty flag key.
EvaluatorKeyNonEmpty == (Handled /\ rpc.evalInvoked) => rpc.evalKey # ""

\* C8, as the code has it: every request is forwarded, with the flag key and
\* the context it carries, the empty key included.
EveryRequestForwarded ==
    Handled =>
      /\ rpc.evalInvoked
      /\ rpc.evalKey = rpc.req.flagKey
      /\ rpc.evalCtx = rpc.req.context

EveryRequestForwardedWitness ==
    rpc.op = "boolean" /\ rpc.req.flagKey = "" /\ rpc.evalInvoked /\ rpc.evalKey = ""

\* C10: a call that ends in an error (from the evaluator, or from the
\* conversion in ResolveObject) returns the zero response, whatever value
\* and variant the evaluator gave with the error.
ErrorResponseIsZero ==
    /\ (Handled /\ ~rpc.status.isNil) =>
         /\ rpc.res.variant = "" /\ rpc.res.reason = ""
         /\ rpc.op = "boolean" => rpc.res.value = FALSE
         /\ rpc.op = "string" => rpc.res.value = ""
         /\ rpc.op \in {"int", "float"} => rpc.res.value = 0
         /\ rpc.op = "object" => rpc.res.value.isNil
    /\ EvaluatorFailed => ~rpc.status.isNil
    /\ (rpc.op = "object" /\ rpc.out.err.isNil /\ DOMAIN rpc.out.value \in {{"c"}, {"d"}}) =>
         ~rpc.status.isNil

ErrorResponseIsZeroWitness ==
    /\ rpc.op = "object" /\ rpc.out.err.isNil /\ ~rpc.status.isNil
    /\ rpc.out.variant = "variantA"
    /\ rpc.res = ZeroResponse("object")

====
